---- MODULE Spec2Model ----
(***************************************************************************)
(* Real-Debrid read-only FUSE filesystem (realdebrid_fs.py) and the API    *)
(* client it sits on (realdebrid_api.py).                                  *)
(*                                                                         *)
(* Strings of the program are sequences of one-character strings, so that  *)
(* sanitisation, splitting and joining are computed character by           *)
(* character.  Python dicts are functions whose DOMAIN is the set of keys  *)
(* present.  The remote service is the environment: every remote request   *)
(* an operation issues is answered by a response drawn from a bounded set. *)
(***************************************************************************)
EXTENDS Integers, Sequences, FiniteSets, TLC

VARIABLES
    clock,            \* time.time(), in seconds
    api_cache,        \* RealDebridAPI._cache: cache key -> response
    api_cache_time,   \* RealDebridAPI._cache_time: cache key -> time stored
    attr_cache,       \* RealDebridFS._attr_cache: "torrents_structure" -> structure
    attr_cache_time,  \* RealDebridFS._attr_cache_time
    fd_counter,       \* RealDebridFS.fd_counter
    open_files,       \* RealDebridFS.open_files: fd -> entry
    ret,              \* outcome of the last filesystem call, as FUSE sees it
    threads           \* the clients of the filesystem: the calls in flight (SpecThreads), the readers of handles (SpecChunks)

vars == <<clock, api_cache, api_cache_time, attr_cache, attr_cache_time,
          fd_counter, open_files, ret, threads>>

fsState == <<attr_cache, attr_cache_time, fd_counter, open_files>>
apiState == <<api_cache, api_cache_time>>

----------------------------------------------------------------------------
(* Bounds and program constants *)

MaxTicks == 2         \* the clock stops after MaxTicks steps of TickSeconds
MaxFd == 2            \* opens are cut off once fd_counter reaches MaxFd


cache_ttl == 30       \* RealDebridFS._cache_ttl
api_cache_ttl == 60   \* RealDebridAPI._cache_ttl
TickSeconds == cache_ttl   \* one step of the clock: a snapshot lifetime

None == "None"        \* Python's None
EmptyStr == ""        \* Python's ""

\* the answer of the remote to one request: a body, or the request raises
\* (network error, HTTP error status); NoRequest stands where none is issued
Ok(body) == [kind |-> "ok", body |-> body]
Raise == [kind |-> "raise"]
NoRequest == [kind |-> "none"]
Raises(resp) == resp.kind # "ok"

----------------------------------------------------------------------------
(* Python values *)

\* d.get(k, default)
Get(d, k, default) == IF k \in DOMAIN d THEN d[k] ELSE default

\* d with d[k] = v executed
Put(d, k, v) == [x \in DOMAIN d \cup {k} |-> IF x = k THEN v ELSE d[x]]

\* d with del d[k] executed
Del(d, k) == [x \in DOMAIN d \ {k} |-> d[x]]

EmptyDict == [x \in {} |-> None]

\* c.isalnum(), over the characters the model uses
AlnumChars == {"a", "b", "d", "e", "f", "g", "n", "o", "r", "t", "1", "2"}
isalnum(c) == c \in AlnumChars

\* the characters line 56 keeps besides alphanumerics
KeptChars == {" ", "-", "_", "."}

\* "".join(c for c in name if c.isalnum() or c in (' ', '-', '_', '.'))
RECURSIVE Sanitize(_)
Sanitize(name) ==
    IF name = <<>> THEN <<>>
    ELSE LET c == Head(name)
             rest == Sanitize(Tail(name))
         IN IF isalnum(c) \/ c \in KeptChars THEN <<c>> \o rest ELSE rest

\* s.split('/'): the pieces between separators, empty pieces included
RECURSIVE SplitFrom(_, _)
SplitFrom(s, cur) ==
    IF s = <<>> THEN <<cur>>
    ELSE IF Head(s) = "/" THEN <<cur>> \o SplitFrom(Tail(s), <<>>)
    ELSE SplitFrom(Tail(s), Append(cur, Head(s)))

Split(s) == SplitFrom(s, <<>>)

\* [p for p in path.split('/') if p]
_get_path_parts(path) == SelectSeq(Split(path), LAMBDA p : p # <<>>)

\* "/".join(parts)
RECURSIVE Join(_)
Join(parts) ==
    IF parts = <<>> THEN <<>>
    ELSE IF Len(parts) = 1 THEN parts[1]
    ELSE parts[1] \o <<"/">> \o Join(Tail(parts))

----------------------------------------------------------------------------
(* RealDebridAPI: the caching client.  api is [cache, time], the pair of   *)
(* dicts _cache and _cache_time; resp is the answer of the remote, used    *)
(* only if a request is issued.                                            *)

TorrentsKey == <<"torrents">>
InfoKey(torrent_id) == <<"torrent_", torrent_id>>

TorrentsRequest == <<"torrents">>
InfoRequest(torrent_id) == <<"torrents/info", torrent_id>>
UnrestrictRequest == <<"unrestrict/link">>
RangeRequest == <<"range">>

\* the test of line 51-52: the key is cached and younger than the TTL
ApiFresh(api, cache_key, now) ==
    /\ cache_key \in DOMAIN api.cache
    /\ now - api.time[cache_key] < api_cache_ttl

\* _get_cached storing the time of a fetch that raised
_get_cached_stamping(api, cache_key, req, resp, now) ==
    IF ApiFresh(api, cache_key, now)
    THEN [api |-> api, raised |-> FALSE, value |-> api.cache[cache_key],
          reqs |-> {}, failed |-> {}]
    ELSE IF Raises(resp)
    THEN [api |-> [cache |-> api.cache, time |-> Put(api.time, cache_key, now)],
          raised |-> TRUE, value |-> None, reqs |-> {req}, failed |-> {req}]
    ELSE [api |-> [cache |-> Put(api.cache, cache_key, resp.body),
                   time |-> Put(api.time, cache_key, now)],
          raised |-> FALSE, value |-> resp.body, reqs |-> {req}, failed |-> {}]

\* _get_cached(cache_key, fetch_func) where fetch_func is the request req
\* answered by resp.  A raising fetch leaves the two dicts as they were.
\* reqs are the requests issued, failed those of them that raised.
_get_cached(api, cache_key, req, resp, now) ==
    IF ApiFresh(api, cache_key, now)
    THEN [api |-> api, raised |-> FALSE, value |-> api.cache[cache_key],
          reqs |-> {}, failed |-> {}]
    ELSE IF Raises(resp)
    THEN [api |-> api, raised |-> TRUE, value |-> None, reqs |-> {req}, failed |-> {req}]
    ELSE [api |-> [cache |-> Put(api.cache, cache_key, resp.body),
                   time |-> Put(api.time, cache_key, now)],
          raised |-> FALSE, value |-> resp.body, reqs |-> {req}, failed |-> {}]

get_torrents(api, resp, now) ==
    _get_cached(api, TorrentsKey, TorrentsRequest, resp, now)

get_torrent_info(api, torrent_id, resp, now) ==
    _get_cached(api, InfoKey(torrent_id), InfoRequest(torrent_id), resp, now)

----------------------------------------------------------------------------
(* RealDebridFS._get_torrents_structure *)

StructureKey == "torrents_structure"

\* f"torrent_{torrent_id}"
DefaultName(torrent_id) == <<"t", "o", "r", "r", "e", "n", "t", "_">> \o <<torrent_id>>

\* lines 69-70: one leading "/" is dropped
StripSlash(file_path) ==
    IF file_path # <<>> /\ Head(file_path) = "/" THEN Tail(file_path) ELSE file_path

\* the dict of lines 72-77 can be built: file_info["id"] exists and
\* file_info.get("links", [None])[0] has an element to take
FileInfoOk(file_info) ==
    /\ "id" \in DOMAIN file_info
    /\ Get(file_info, "links", <<None>>) # <<>>

\* a file node that takes its size from a field the manifest does not have
FileNodeSizeless(file_info) ==
    [id |-> file_info["id"],
     size |-> Get(file_info, "size", 0),
     link |-> Get(file_info, "links", <<None>>)[1],
     type |-> "file"]

\* lines 72-77
FileNode(file_info) ==
    [id |-> file_info["id"],
     size |-> Get(file_info, "bytes", 0),
     link |-> Get(file_info, "links", <<None>>)[1],
     type |-> "file"]

\* the loop of lines 67-77 over info["files"]; the first entry that raises
\* ends it (line 78), the entries stored before it stay
RECURSIVE BuildFiles(_, _)
BuildFiles(file_infos, files) ==
    IF file_infos = <<>> THEN files
    ELSE LET file_info == Head(file_infos)
         IN IF ~FileInfoOk(file_info) THEN files
            ELSE BuildFiles(Tail(file_infos),
                            Put(files, StripSlash(Get(file_info, "path", <<>>)),
                                FileNode(file_info)))

\* lines 52-56
TorrentName(torrent) ==
    Sanitize(Get(torrent, "filename", DefaultName(torrent["id"])))

\* lines 58-62
DirNode(torrent_id, files) == [id |-> torrent_id, type |-> "dir", files |-> files]

\* lines 58-79 for one ready torrent, got being what get_torrent_info gave:
\* the entry is stored under the sanitised name, replacing any entry there
AddTorrent(acc, torrent, got) ==
    [structure |-> Put(acc.structure, TorrentName(torrent),
                       DirNode(torrent["id"],
                               IF got.raised THEN EmptyDict
                               ELSE BuildFiles(Get(got.value, "files", <<>>), EmptyDict))),
     api |-> got.api,
     reqs |-> acc.reqs \cup got.reqs,
     failed |-> acc.failed \cup got.failed]

\* the loop of lines 48-79.  acc is [structure, api, reqs, failed]; infoResp
\* gives, per torrent id, the answer of the remote to torrents/info/<id>
RECURSIVE BuildStructure(_, _, _, _)
BuildStructure(torrents, acc, infoResp, now) ==
    IF torrents = <<>> THEN acc
    ELSE IF Get(Head(torrents), "status", None) # "downloaded"
    THEN BuildStructure(Tail(torrents), acc, infoResp, now)
    ELSE BuildStructure(Tail(torrents),
             AddTorrent(acc, Head(torrents),
                        get_torrent_info(acc.api, Head(torrents)["id"],
                                         infoResp[Head(torrents)["id"]], now)),
             infoResp, now)

\* the test of lines 41-42 left out: every call rebuilds
StructureFreshNever(fs, now) == FALSE

\* the test of lines 41-42 with a snapshot still fresh at the age of the TTL
StructureFreshInclusive(fs, now) ==
    /\ StructureKey \in DOMAIN fs.cache
    /\ now - Get(fs.time, StructureKey, 0) <= cache_ttl

\* the test of lines 41-42
StructureFresh(fs, now) ==
    /\ StructureKey \in DOMAIN fs.cache
    /\ now - Get(fs.time, StructureKey, 0) < cache_ttl

\* lines 81-83: the structure built is stored with the time of the call
Stored(fs, built, now) ==
    [fs |-> [cache |-> Put(fs.cache, StructureKey, built.structure),
             time |-> Put(fs.time, StructureKey, now)],
     api |-> built.api, raised |-> FALSE, structure |-> built.structure,
     reqs |-> built.reqs, failed |-> built.failed]

\* lines 45-83 with a failed listing taken for an empty list
RebuildSwallowing(fs, api, got, infoResp, now) ==
    Stored(fs,
           IF got.raised
           THEN [structure |-> EmptyDict, api |-> api,
                 reqs |-> got.reqs, failed |-> got.failed]
           ELSE BuildStructure(got.value,
                               [structure |-> EmptyDict, api |-> got.api,
                                reqs |-> got.reqs, failed |-> {}],
                               infoResp, now),
           now)

\* lines 45-83, got being what api.get_torrents() gave: when it raised, the
\* exception leaves the method and nothing is stored
Rebuild(fs, api, got, infoResp, now) ==
    IF got.raised
    THEN [fs |-> fs, api |-> api, raised |-> TRUE, structure |-> EmptyDict,
          reqs |-> got.reqs, failed |-> got.failed]
    ELSE Stored(fs,
                BuildStructure(got.value,
                               [structure |-> EmptyDict, api |-> got.api,
                                reqs |-> got.reqs, failed |-> {}],
                               infoResp, now),
                now)

\* _get_torrents_structure().  fs is [cache, time] (_attr_cache and
\* _attr_cache_time).  The result carries the structure returned, or
\* raised = TRUE when api.get_torrents() raised out of the method.
_get_torrents_structure(fs, api, listResp, infoResp, now) ==
    IF StructureFresh(fs, now)
    THEN [fs |-> fs, api |-> api, raised |-> FALSE,
          structure |-> fs.cache[StructureKey], reqs |-> {}, failed |-> {}]
    ELSE Rebuild(fs, api, get_torrents(api, listResp, now), infoResp, now)

----------------------------------------------------------------------------
(* RealDebridFS: path resolution and the read-only calls *)

RootPath == <<"/">>
RootNode == [type |-> "root"]
NoNode == [type |-> "none"]      \* _resolve_path returning None

IsNone(node) == node.type = "none"

\* lines 93-110 looking the second segment alone up among the files
ResolveInSecond(structure, parts) ==
    IF Len(parts) = 1
    THEN IF parts[1] \in DOMAIN structure THEN structure[parts[1]] ELSE NoNode
    ELSE IF Len(parts) >= 2
    THEN IF parts[1] \in DOMAIN structure
            /\ parts[2] \in DOMAIN structure[parts[1]].files
         THEN structure[parts[1]].files[parts[2]]
         ELSE NoNode
    ELSE NoNode

\* lines 93-110, against the structure _get_torrents_structure returned
ResolveIn(structure, parts) ==
    IF Len(parts) = 1
    THEN IF parts[1] \in DOMAIN structure THEN structure[parts[1]] ELSE NoNode
    ELSE IF Len(parts) >= 2
    THEN LET torrent_name == parts[1]
             file_path == Join(Tail(parts))
         IN IF torrent_name \in DOMAIN structure
               /\ file_path \in DOMAIN structure[torrent_name].files
            THEN structure[torrent_name].files[file_path]
            ELSE NoNode
    ELSE NoNode

\* lines 93-110 on what _get_torrents_structure gave
Resolved(got, path) ==
    [fs |-> got.fs, api |-> got.api, raised |-> got.raised,
     node |-> IF got.raised THEN NoNode
              ELSE ResolveIn(got.structure, _get_path_parts(path)),
     reqs |-> got.reqs, failed |-> got.failed]

\* lines 93-110 answering from the snapshot found cached before the call,
\* when there was one, although the call's rebuild has replaced it
ResolvedPrior(got, fs, path) ==
    [fs |-> got.fs, api |-> got.api, raised |-> got.raised,
     node |-> IF got.raised THEN NoNode
              ELSE ResolveIn(IF StructureKey \in DOMAIN fs.cache
                             THEN fs.cache[StructureKey] ELSE got.structure,
                             _get_path_parts(path)),
     reqs |-> got.reqs, failed |-> got.failed]

_resolve_path_prior(path, fs, api, listResp, infoResp, now) ==
    IF path = RootPath
    THEN [fs |-> fs, api |-> api, raised |-> FALSE, node |-> RootNode,
          reqs |-> {}, failed |-> {}]
    ELSE ResolvedPrior(_get_torrents_structure(fs, api, listResp, infoResp, now), fs, path)

\* _resolve_path(path): "/" is answered before the structure is consulted
_resolve_path(path, fs, api, listResp, infoResp, now) ==
    IF path = RootPath
    THEN [fs |-> fs, api |-> api, raised |-> FALSE, node |-> RootNode,
          reqs |-> {}, failed |-> {}]
    ELSE Resolved(_get_torrents_structure(fs, api, listResp, infoResp, now), path)

S_IFDIR == "S_IFDIR"
S_IFREG == "S_IFREG"
DirPerm == 493        \* 0o755
FilePerm == 292       \* 0o444
DirSize == 4096

\* lines 122-139: the stat dict of a resolved node
Attributes(resolved, now) ==
    IF resolved.type = "root" \/ resolved.type = "dir"
    THEN [st_mode |-> <<S_IFDIR, DirPerm>>, st_nlink |-> 2, st_size |-> DirSize,
          st_ctime |-> now, st_mtime |-> now, st_atime |-> now]
    ELSE [st_mode |-> <<S_IFREG, FilePerm>>, st_nlink |-> 1,
          st_size |-> Get(resolved, "size", 0),
          st_ctime |-> now, st_mtime |-> now, st_atime |-> now]

Dot == <<".">>
DotDot == <<".", ".">>

\* lines 153-160: the first component of every file path of the job
DirEntries(resolved) ==
    LET files == Get(resolved, "files", EmptyDict)
    IN {Split(file_path)[1] : file_path \in DOMAIN files}

\* what a call hands back to FUSE (err, val), with the requests it issued
\* to the remote and those of them that failed
Outcome(op, path, fh, err, val, reqs, failed) ==
    [op |-> op, path |-> path, fh |-> fh, err |-> err, val |-> val,
     reqs |-> reqs, failed |-> failed]

\* no call has returned since the clock last moved
NoCall == Outcome("none", <<>>, 0, "OK", "None", {}, {})

\* the outcome of a read, with the window asked for and the status code of
\* the answer to its range request (0 when there was no answer)
ReadOutcome(path, size, offset, fh, rangeResp, err, val, reqs, failed) ==
    [op |-> "read", path |-> path, fh |-> fh, err |-> err, val |-> val,
     reqs |-> reqs, failed |-> failed, size |-> size, offset |-> offset,
     status |-> IF rangeResp.kind = "ok" THEN rangeResp.body.status_code ELSE 0]

OK == "OK"
ENOENT == "ENOENT"
EBADF == "EBADF"
EIO == "EIO"
EROFS == "EROFS"
Exception == "Exception"   \* an exception that is no FuseOSError leaves the method

----------------------------------------------------------------------------
(* The remote behind the download links *)

\* the direct-download URL the remote hands out for a link
UrlOf(link) == IF link = "L1" THEN "U1" ELSE "U2"

\* the bytes behind a direct-download URL
RemoteContent(download_url) ==
    IF download_url = "U1" THEN <<11, 12>> ELSE <<21, 22, 23>>

Min(a, b) == IF a < b THEN a ELSE b

\* answers the remote can give to POST unrestrict/link
UnrestrictResponses(link) == {Raise, Ok([download |-> UrlOf(link)])}

\* answers the remote can give to GET download_url with Range: bytes=offset-(offset+size-1)
RangeResponses(download_url, offset, size) ==
    LET content == RemoteContent(download_url)
    IN {Raise, Ok([status_code |-> 403, content |-> <<>>]),
        Ok([status_code |-> 200, content |-> content])}
       \cup (IF offset < Len(content)
             THEN {Ok([status_code |-> 206,
                       content |-> SubSeq(content, offset + 1,
                                          Min(offset + size, Len(content)))])}
             ELSE {Ok([status_code |-> 416, content |-> <<>>])})

----------------------------------------------------------------------------
(* The filesystem calls.  FUSE runs with nothreads=True (line 280): a call *)
(* runs from entry to return before the next one starts.                   *)

FS == [cache |-> attr_cache, time |-> attr_cache_time]
API == [cache |-> api_cache, time |-> api_cache_time]

Install(r) ==
    /\ attr_cache' = r.fs.cache
    /\ attr_cache_time' = r.fs.time
    /\ api_cache' = r.api.cache
    /\ api_cache_time' = r.api.time

\* in each call r is what _resolve_path(path) gave
getattr(path, listResp, infoResp) ==
    \E r \in {_resolve_path(path, FS, API, listResp, infoResp, clock)} :
       /\ Install(r)
       /\ ret' = IF r.raised
                 THEN Outcome("getattr", path, 0, Exception, None, r.reqs, r.failed)
                 ELSE IF IsNone(r.node)
                 THEN Outcome("getattr", path, 0, ENOENT, None, r.reqs, r.failed)
                 ELSE Outcome("getattr", path, 0, OK, Attributes(r.node, clock),
                              r.reqs, r.failed)
       /\ UNCHANGED <<clock, fd_counter, open_files, threads>>

readdir(path, listResp, infoResp) ==
    \E r \in {_resolve_path(path, FS, API, listResp, infoResp, clock)} :
       IF r.raised \/ IsNone(r.node) \/ r.node.type # "root"
       THEN /\ Install(r)
            /\ ret' = IF r.raised
                      THEN Outcome("readdir", path, 0, Exception, None, r.reqs, r.failed)
                      ELSE IF IsNone(r.node)
                      THEN Outcome("readdir", path, 0, ENOENT, None, r.reqs, r.failed)
                      ELSE Outcome("readdir", path, 0, OK,
                                   {Dot, DotDot} \cup
                                     (IF r.node.type = "dir" THEN DirEntries(r.node) ELSE {}),
                                   r.reqs, r.failed)
            /\ UNCHANGED <<clock, fd_counter, open_files, threads>>
       ELSE \* line 151: for the root, readdir asks for the structure itself
            \E s \in {_get_torrents_structure(r.fs, r.api, listResp, infoResp, clock)} :
               /\ Install(s)
               /\ ret' = IF s.raised
                         THEN Outcome("readdir", path, 0, Exception, None, s.reqs, s.failed)
                         ELSE Outcome("readdir", path, 0, OK,
                                      {Dot, DotDot} \cup DOMAIN s.structure,
                                      s.reqs, s.failed)
               /\ UNCHANGED <<clock, fd_counter, open_files, threads>>

\* an allocator that hands out the lowest descriptor not in the table
NextFdLowestFree(counter, table) ==
    CHOOSE fd \in 1 .. (counter + 1) :
        /\ fd \notin DOMAIN table
        /\ \A other \in 1 .. (fd - 1) : other \in DOMAIN table

\* lines 171-172: self.fd_counter += 1; fd = self.fd_counter
NextFd(counter, table) == counter + 1

\* an open that refuses only what does not resolve
OpenRefusedUnresolved(resolved) == IsNone(resolved)

\* line 168: what open refuses
OpenRefused(resolved) == IsNone(resolved) \/ resolved.type # "file"

\* lines 174-179
OpenEntry(path, resolved) ==
    [path |-> path, info |-> resolved, session |-> None, download_url |-> None]

open(path, listResp, infoResp) ==
    \E r \in {_resolve_path(path, FS, API, listResp, infoResp, clock)} :
       /\ Install(r)
       /\ IF r.raised
          THEN /\ ret' = Outcome("open", path, 0, Exception, None, r.reqs, r.failed)
               /\ UNCHANGED <<fd_counter, open_files>>
          ELSE IF OpenRefused(r.node)
          THEN /\ ret' = Outcome("open", path, 0, ENOENT, None, r.reqs, r.failed)
               /\ UNCHANGED <<fd_counter, open_files>>
          ELSE \E fd \in {NextFd(fd_counter, open_files)} :
                  /\ fd_counter < MaxFd
                  /\ fd_counter' = fd
                  /\ open_files' = Put(open_files, fd, OpenEntry(path, r.node))
                  /\ ret' = Outcome("open", path, fd, OK, fd, r.reqs, r.failed)
       /\ UNCHANGED <<clock, threads>>

\* the snapshot installed now, empty when none is
Snapshot == Get(attr_cache, StructureKey, EmptyDict)

\* what a path resolves to in the snapshot installed now
SnapshotNode(path) ==
    IF path = RootPath THEN RootNode ELSE ResolveIn(Snapshot, _get_path_parts(path))

\* a read that looks the handle's path up again in the current snapshot
HandleInfoByPath(fh) == SnapshotNode(open_files[fh].path)

\* line 188: the node a read works on is the one stored by open
HandleInfo(fh) == open_files[fh].info

\* `not x` of Python for the strings and None used as links and URLs
Falsy(x) == x = None \/ x = EmptyStr

\* src/realdebrid_fs.py:212 accepting the partial answer only
AcceptedStatusPartial == {206}

\* lines 212-215: the statuses read accepts
AcceptedStatus == {200, 206}

\* a read that keeps the URL to itself
MemoizedNot(table, fh, download_url) == table

\* line 197: the URL is stored on the handle's entry
Memoized(table, fh, download_url) == [table EXCEPT ![fh].download_url = download_url]

\* lines 183-218: what read does to the filesystem's own state
\* src/realdebrid_fs.py:199-201 with the handle closed by the failure
ExchangeFailedClosed(table, fh) == [h \in DOMAIN table \ {fh} |-> table[h]]

\* src/realdebrid_fs.py:199-201: the except clause prints and raises EIO, the
\* assignment of line 197 never ran and the handle's entry is as it was
ExchangeFailed(table, fh) == table

ReadCall(path, size, offset, fh, unrestrictResp, rangeResp) ==
    /\ UNCHANGED <<clock, attr_cache, attr_cache_time, api_cache, api_cache_time,
                   fd_counter>>
    /\ IF fh \notin DOMAIN open_files
       THEN /\ ret' = ReadOutcome(path, size, offset, fh, rangeResp, EBADF, None, {}, {})
            /\ UNCHANGED open_files
       ELSE LET file_info == HandleInfo(fh)
                link == Get(file_info, "link", None)
                cached == open_files[fh].download_url
            IN IF Falsy(link)
               THEN /\ ret' = ReadOutcome(path, size, offset, fh, rangeResp, EIO, None, {}, {})
                    /\ UNCHANGED open_files
               ELSE IF Falsy(cached) /\ Raises(unrestrictResp)
               THEN /\ ret' = ReadOutcome(path, size, offset, fh, rangeResp, EIO, None,
                                      {UnrestrictRequest}, {UnrestrictRequest})
                    /\ open_files' = ExchangeFailed(open_files, fh)
               ELSE LET download_url ==
                            IF Falsy(cached)
                            THEN Get(unrestrictResp.body, "download", EmptyStr) ELSE cached
                        reqs == IF Falsy(cached) THEN {UnrestrictRequest} ELSE {}
                    IN /\ open_files' = Memoized(open_files, fh, download_url)
                       /\ ret' =
                            \* requests.get("") raises before anything is sent
                            IF Falsy(download_url)
                            THEN ReadOutcome(path, size, offset, fh, rangeResp, EIO, None, reqs, {})
                            ELSE IF Raises(rangeResp)
                                    \/ rangeResp.body.status_code \notin AcceptedStatus
                            THEN ReadOutcome(path, size, offset, fh, rangeResp, EIO, None,
                                         reqs \cup {RangeRequest}, {RangeRequest})
                            ELSE ReadOutcome(path, size, offset, fh, rangeResp, OK,
                                             rangeResp.body.content,
                                         reqs \cup {RangeRequest}, {})

read(path, size, offset, fh, unrestrictResp, rangeResp) ==
    /\ ReadCall(path, size, offset, fh, unrestrictResp, rangeResp)
    /\ UNCHANGED threads

\* a release that leaves the entry in the table
ReleasedKept(table, fh) == table

\* lines 222-223: the table after release(fh)
Released(table, fh) == IF fh \in DOMAIN table THEN Del(table, fh) ELSE table

release(path, fh) ==
    /\ open_files' = Released(open_files, fh)
    /\ ret' = Outcome("release", path, fh, OK, 0, {}, {})
    /\ UNCHANGED <<clock, attr_cache, attr_cache_time, api_cache, api_cache_time,
                   fd_counter, threads>>

\* lines 226-252: each mutating call raises EROFS and does nothing else
chmod(path) ==
    /\ ret' = Outcome("chmod", path, 0, EROFS, None, {}, {})
    /\ UNCHANGED <<clock, fsState, apiState, threads>>

chown(path) ==
    /\ ret' = Outcome("chown", path, 0, EROFS, None, {}, {})
    /\ UNCHANGED <<clock, fsState, apiState, threads>>

create(path) ==
    /\ ret' = Outcome("create", path, 0, EROFS, None, {}, {})
    /\ UNCHANGED <<clock, fsState, apiState, threads>>

mkdir(path) ==
    /\ ret' = Outcome("mkdir", path, 0, EROFS, None, {}, {})
    /\ UNCHANGED <<clock, fsState, apiState, threads>>

rename(old) ==
    /\ ret' = Outcome("rename", old, 0, EROFS, None, {}, {})
    /\ UNCHANGED <<clock, fsState, apiState, threads>>

rmdir(path) ==
    /\ ret' = Outcome("rmdir", path, 0, EROFS, None, {}, {})
    /\ UNCHANGED <<clock, fsState, apiState, threads>>

truncate(path) ==
    /\ ret' = Outcome("truncate", path, 0, EROFS, None, {}, {})
    /\ UNCHANGED <<clock, fsState, apiState, threads>>

\* an unlink that drops the job of the path from the snapshot
unlinkApplied(path) ==
    /\ ret' = Outcome("unlink", path, 0, OK, None, {}, {})
    /\ attr_cache' =
          IF StructureKey \in DOMAIN attr_cache /\ _get_path_parts(path) # <<>>
          THEN Put(attr_cache, StructureKey,
                   [n \in DOMAIN attr_cache[StructureKey] \ {_get_path_parts(path)[1]}
                      |-> attr_cache[StructureKey][n]])
          ELSE attr_cache
    /\ UNCHANGED <<clock, attr_cache_time, fd_counter, open_files, apiState, threads>>

unlink(path) ==
    /\ ret' = Outcome("unlink", path, 0, EROFS, None, {}, {})
    /\ UNCHANGED <<clock, fsState, apiState, threads>>

write(path) ==
    /\ ret' = Outcome("write", path, 0, EROFS, None, {}, {})
    /\ UNCHANGED <<clock, fsState, apiState, threads>>

MutatingOps == {"chmod", "chown", "create", "mkdir", "rename", "rmdir", "truncate",
                "unlink", "write"}

\* time passes between calls
Tick ==
    /\ clock < MaxTicks * TickSeconds
    /\ clock' = clock + TickSeconds
    /\ ret' = NoCall
    /\ UNCHANGED <<fsState, apiState, threads>>

----------------------------------------------------------------------------
(* Which requests a call issues in the current state, so that the remote   *)
(* answers exactly those.                                                  *)

\* the call reaches _get_torrents_structure and finds the cache expired
Rebuilds(consults) == consults /\ ~StructureFresh(FS, clock)

\* answers to GET torrents, drawn from lists when the request is issued
ListChoices(consults, lists) ==
    IF Rebuilds(consults) /\ ~ApiFresh(API, TorrentsKey, clock)
    THEN {Ok(l) : l \in lists} \cup {Raise}
    ELSE {NoRequest}

\* the list the rebuild walks
Walked(consults, listResp) ==
    IF ~Rebuilds(consults) \/ listResp.kind = "raise" THEN <<>>
    ELSE IF listResp.kind = "ok" THEN listResp.body
    ELSE api_cache[TorrentsKey]

InfoNeeded(torrent_id, torrents) ==
    /\ \E i \in DOMAIN torrents :
          /\ torrents[i]["id"] = torrent_id
          /\ Get(torrents[i], "status", None) = "downloaded"
    /\ ~ApiFresh(API, InfoKey(torrent_id), clock)

\* answers to GET torrents/info/<id>, per id, drawn from answers[id]
InfoChoices(torrents, ids, answers) ==
    LET per == [id \in ids |-> IF InfoNeeded(id, torrents) THEN answers[id]
                                ELSE {NoRequest}]
    IN {f \in [ids -> UNION {per[id] : id \in ids}] : \A id \in ids : f[id] \in per[id]}

\* the link read(fh) sends to unrestrict/link, None when it sends none
LinkOf(fh) ==
    IF fh \in DOMAIN open_files THEN Get(HandleInfo(fh), "link", None) ELSE None

UnrestrictChoices(fh) ==
    IF ~Falsy(LinkOf(fh)) /\ Falsy(open_files[fh].download_url)
    THEN UnrestrictResponses(LinkOf(fh))
    ELSE {NoRequest}

RangeChoices(fh, size, offset, unrestrictResp) ==
    IF Falsy(LinkOf(fh))
    THEN {NoRequest}
    ELSE LET cached == open_files[fh].download_url
             download_url == IF ~Falsy(cached) THEN cached
                             ELSE IF Raises(unrestrictResp) THEN EmptyStr
                             ELSE Get(unrestrictResp.body, "download", EmptyStr)
         IN IF Falsy(download_url) THEN {NoRequest}
            ELSE RangeResponses(download_url, offset, size)

----------------------------------------------------------------------------
(* Inputs: the catalogs, manifests and paths the specifications draw from *)

Torrent(torrent_id, filename, status) ==
    [id |-> torrent_id, filename |-> filename, status |-> status]

FileInfo(file_id, path, bytes, link) ==
    [id |-> file_id, path |-> path, bytes |-> bytes, links |-> <<link>>]

TorrentIds == {"1", "2"}

NameA == <<"a">>
PathF == <<"/", "f">>

\* the manifest of each job: one file "/f", of its own size and link
Manifest(torrent_id) ==
    IF torrent_id = "1"
    THEN [files |-> <<FileInfo(1, PathF, 2, "L1")>>]
    ELSE [files |-> <<FileInfo(1, PathF, 3, "L2")>>]

\* a remote whose manifest requests succeed
ManifestOk == [torrent_id \in TorrentIds |-> {Ok(Manifest(torrent_id))}]


Init ==
    /\ clock = 0
    /\ api_cache = EmptyDict
    /\ api_cache_time = EmptyDict
    /\ attr_cache = EmptyDict
    /\ attr_cache_time = EmptyDict
    /\ fd_counter = 0
    /\ open_files = EmptyDict
    /\ ret = NoCall
    /\ threads = EmptyDict

\* a call of getattr on one of paths, the remote answering from lists and manifests
CallGetattr(paths, lists, answers) ==
    \E path \in paths :
      \E listResp \in ListChoices(path # RootPath, lists) :
        \E infoResp \in InfoChoices(Walked(path # RootPath, listResp), TorrentIds, answers) :
          getattr(path, listResp, infoResp)

CallReaddir(paths, lists, answers) ==
    \E path \in paths :
      \E listResp \in ListChoices(TRUE, lists) :
        \E infoResp \in InfoChoices(Walked(TRUE, listResp), TorrentIds, answers) :
          readdir(path, listResp, infoResp)

CallOpen(paths, lists, answers) ==
    \E path \in paths :
      \E listResp \in ListChoices(path # RootPath, lists) :
        \E infoResp \in InfoChoices(Walked(path # RootPath, listResp), TorrentIds, answers) :
          open(path, listResp, infoResp)

CallRead(path, handles, windows) ==
    \E fh \in handles, w \in windows :
      \E unrestrictResp \in UnrestrictChoices(fh) :
        \E rangeResp \in RangeChoices(fh, w[1], w[2], unrestrictResp) :
          read(path, w[1], w[2], fh, unrestrictResp, rangeResp)

CallRelease(path, handles) == \E fh \in handles : release(path, fh)

----------------------------------------------------------------------------
(* SpecHandles: the open-file table over a catalog whose one job can       *)
(* vanish, be renamed or be replaced by another job of the same name.      *)

HandleLists ==
    {<<>>,
     <<Torrent("1", NameA, "downloaded")>>,
     <<Torrent("2", NameA, "downloaded")>>}

HandlePaths == {RootPath, <<"/", "a">>, <<"/", "a", "/", "f">>}
ReadPath == <<"/", "a", "/", "f">>
ReadWindows == {<<2, 0>>}     \* <<size, offset>>
Handles == 1 .. MaxFd

HGetattr == CallGetattr(HandlePaths, HandleLists, ManifestOk)
HOpen == CallOpen(HandlePaths, HandleLists, ManifestOk)
HRead == CallRead(ReadPath, Handles, ReadWindows)
HRelease == CallRelease(ReadPath, Handles)

NextHandles ==
    \/ HGetattr
    \/ HOpen
    \/ HRead
    \/ HRelease
    \/ Tick

SpecHandles == Init /\ [][NextHandles]_vars

\* the job directory name a path lies under
JobOf(path) == _get_path_parts(path)[1]

\* every contiguous piece of a byte string, the empty one included
Pieces(content) ==
    {SubSeq(content, i, j) : i \in 1 .. Len(content) + 1, j \in 0 .. Len(content)}

\* C4: an open handle keeps the node resolved at open time until release,
\* whatever refresh happens in between: no step changes the node of a handle
\* that stays open, and a read on an open handle works on that node: it
\* fails only when a remote request of the read fails, and the bytes it
\* returns are bytes of the file the node's fetch handle names.
C4_HandleKeepsNode ==
    [][\A fh \in DOMAIN open_files :
          /\ fh \in DOMAIN open_files' =>
                /\ open_files'[fh].info = open_files[fh].info
                /\ open_files'[fh].path = open_files[fh].path
          /\ (ret'.op = "read" /\ ret'.fh = fh) =>
                /\ ret'.err \in {OK, EIO}
                /\ ret'.err = EIO => ret'.failed # {}
                /\ ret'.err = OK =>
                      ret'.val \in Pieces(RemoteContent(UrlOf(open_files[fh].info.link)))
      ]_vars

\* C4 witness: a read has just succeeded on a handle whose path no longer
\* resolves to the handle's node in the snapshot installed now
C4_Witness ==
    /\ ret.op = "read"
    /\ ret.err = OK
    /\ ret.fh \in DOMAIN open_files
    /\ StructureKey \in DOMAIN attr_cache
    /\ SnapshotNode(open_files[ret.fh].path) # open_files[ret.fh].info

\* C5: a getattr or open that resolved its path against a snapshot in which
\* the path's job does not appear returns ENOENT, for the job directory and
\* for every path under it.
C5_VanishedJobNotFound ==
    (/\ ret.op \in {"getattr", "open"}
     /\ ret.err # Exception
     /\ ret.path # RootPath
     /\ JobOf(ret.path) \notin DOMAIN Snapshot)
    => ret.err = ENOENT

\* C5 witness: open returns ENOENT on a path that an open handle was opened
\* on, after the job left the snapshot
C5_Witness ==
    /\ ret.op = "open"
    /\ ret.err = ENOENT
    /\ ret.path # RootPath
    /\ StructureKey \in DOMAIN attr_cache
    /\ JobOf(ret.path) \notin DOMAIN Snapshot
    /\ \E fh \in DOMAIN open_files : open_files[fh].path = ret.path

\* a handle id that was handed out and is no longer in the table
Closed(fh) == fh \in 1 .. fd_counter /\ fh \notin DOMAIN open_files

\* C6: release(h) takes h out of the table, a closed handle id never comes
\* back into it however many opens follow, and a read on a handle id that is
\* not in the table fails with EBADF, returns nothing and issues no request.
C6_ClosedHandleStaysBad ==
    [][/\ ret'.op = "release" => ret'.fh \notin DOMAIN open_files'
       /\ \A fh \in Handles : Closed(fh) => Closed(fh)'
       /\ (ret'.op = "read" /\ ret'.fh \notin DOMAIN open_files) =>
             /\ ret'.err = EBADF
             /\ ret'.val = None
             /\ ret'.reqs = {}
      ]_vars

\* C6 witness: a read fails with EBADF on a released handle while a handle
\* opened after it is in the table
C6_Witness ==
    /\ ret.op = "read"
    /\ ret.err = EBADF
    /\ Closed(ret.fh)
    /\ \E later \in DOMAIN open_files : later > ret.fh

\* C7: a successful open returns an id above the counter, hence above every
\* id returned before, and the counter moves to it; the counter never goes
\* down and no id in the table is above it.
C7_FreshHandleIds ==
    [][/\ (ret'.op = "open" /\ ret'.err = OK) =>
             /\ ret'.val > fd_counter
             /\ fd_counter' = ret'.val
             /\ ret'.val \notin DOMAIN open_files
       /\ fd_counter' >= fd_counter
       /\ DOMAIN open_files' \subseteq 1 .. fd_counter'
      ]_vars

\* C7 witness: an open returns 2 after handle 1 was released
C7_Witness ==
    /\ ret.op = "open"
    /\ ret.err = OK
    /\ ret.val = 2
    /\ Closed(1)

\* C12: an open whose path does not resolve, or resolves to the root or to a
\* job directory, ends in ENOENT; it and every other open that fails leave
\* the handle counter and the open-file table as they were.
C12_OpenRefusedNotFound ==
    [][ret'.op = "open" =>
          /\ \A path \in HandlePaths :
                (/\ ret'.path = path
                 /\ ret'.err # Exception
                 /\ SnapshotNode(path)'.type # "file")
                => ret'.err = ENOENT
          /\ ret'.err # OK =>
                /\ ret'.val = None
                /\ fd_counter' = fd_counter
                /\ open_files' = open_files
      ]_vars

\* C12 witness: an open of the job directory was refused with ENOENT while a
\* handle is open
C12_Witness ==
    /\ ret.op = "open"
    /\ ret.err = ENOENT
    /\ SnapshotNode(ret.path).type = "dir"
    /\ open_files # EmptyDict

----------------------------------------------------------------------------
(* SpecReadOnly: getattr, open, release and the nine mutating calls *)

Mutate ==
    \E path \in HandlePaths :
        \/ chmod(path)
        \/ chown(path)
        \/ create(path)
        \/ mkdir(path)
        \/ rename(path)
        \/ rmdir(path)
        \/ truncate(path)
        \/ unlink(path)
        \/ write(path)

NextReadOnly ==
    \/ HGetattr
    \/ HOpen
    \/ HRelease
    \/ Tick
    \/ Mutate

SpecReadOnly == Init /\ [][NextReadOnly]_vars

\* C1: each of the nine mutating calls, on any path and in any state, ends
\* with EROFS, issues no remote request and leaves the snapshot, its
\* timestamp, the open-file table, the handle counter and the client's cache
\* as they were.
C1_MutatingCallsRejected ==
    [][ret'.op \in MutatingOps =>
          /\ ret'.err = EROFS
          /\ ret'.reqs = {}
          /\ UNCHANGED <<attr_cache, attr_cache_time, open_files, fd_counter,
                         api_cache, api_cache_time>>
      ]_vars

\* C1 witness: unlink was rejected on the path of a file that resolves in the
\* snapshot and that a handle is open on
C1_Witness ==
    /\ ret.op = "unlink"
    /\ ret.err = EROFS
    /\ SnapshotNode(ret.path).type = "file"
    /\ \E fh \in DOMAIN open_files : open_files[fh].path = ret.path

----------------------------------------------------------------------------
(* Spec: the tree cache over a catalog of up to two jobs whose display     *)
(* names need sanitising, collide after it, are emptied by it or are       *)
(* missing, whose status may be other than ready, and whose manifest       *)
(* request can fail or come back malformed.                                *)

NameAQ == <<"a", "?">>      \* sanitised to "a"
NameQ == <<"?">>            \* sanitised to ""

Statuses == {"downloaded", "downloading"}

\* job 1 is ready, under one of three display names; job 2 is named "a"
\* and ready or not
CatalogTorrents(torrent_id) ==
    IF torrent_id = "1"
    THEN {Torrent("1", NameAQ, "downloaded"), Torrent("1", NameQ, "downloaded"),
          [id |-> "1", status |-> "downloaded"]}
    ELSE {Torrent("2", NameA, st) : st \in Statuses}

CatalogLists ==
    {<<>>}
    \cup {<<t>> : t \in CatalogTorrents("1")}
    \cup {<<t1, t2>> : t1 \in CatalogTorrents("1"), t2 \in CatalogTorrents("2")}

\* a manifest whose one entry lacks "id"
Malformed(torrent_id) == [files |-> <<[path |-> PathF, bytes |-> 2, links |-> <<"L1">>]>>]

CatalogAnswers ==
    [torrent_id \in TorrentIds |->
        {Ok(Manifest(torrent_id)), Ok(Malformed(torrent_id)), Raise}]

PathA == <<"/", "a">>
PathAF == <<"/", "a", "/", "f">>
PathDefault == <<"/">> \o DefaultName("1")

CatalogPaths == {RootPath, PathA, PathAF, PathDefault}

Getattr == CallGetattr(CatalogPaths, CatalogLists, CatalogAnswers)
Readdir == CallReaddir({RootPath, PathA}, CatalogLists, CatalogAnswers)

Next ==
    \/ Getattr
    \/ Readdir
    \/ Tick

Spec == Init /\ [][Next]_vars

\* the jobs with status ready in the job list the client last fetched, as
\* indices into that list
ReadyJobs ==
    IF TorrentsKey \in DOMAIN api_cache
    THEN {i \in DOMAIN api_cache[TorrentsKey] :
             Get(api_cache[TorrentsKey][i], "status", None) = "downloaded"}
    ELSE {}

ReadyJob(i) == api_cache[TorrentsKey][i]

\* the path of one segment made of a name
DirPath(name) == <<"/">> \o name

\* the installed snapshot is the one built from the job list the client holds
SnapshotFollowsList ==
    StructureKey \in DOMAIN attr_cache =>
        DOMAIN Snapshot = {TorrentName(ReadyJob(i)) : i \in ReadyJobs}

\* C2: when a snapshot exists and the job-listing request of a rebuild fails,
\* the getattr or readdir that met the failure, and every one after it that
\* meets it again, answers from the retained snapshot: ENOENT for a path the
\* snapshot does not hold, success otherwise, never another error.
C2_StaleServedOnListFailure ==
    (/\ ret.op \in {"getattr", "readdir"}
     /\ TorrentsRequest \in ret.failed
     /\ StructureKey \in DOMAIN attr_cache)
    => ret.err = (IF IsNone(SnapshotNode(ret.path)) THEN ENOENT ELSE OK)

\* C3: when the manifest request of a job fails during a rebuild and the job
\* stays in the snapshot under its name, every file of the job that resolved
\* before the rebuild resolves after it.
C3_ManifestFailureKeepsFiles ==
    [][\A torrent_id \in TorrentIds :
          InfoRequest(torrent_id) \in ret'.failed =>
             \A path \in CatalogPaths :
                (/\ SnapshotNode(path).type = "file"
                 /\ Snapshot[JobOf(path)].id = torrent_id
                 /\ JobOf(path) \in DOMAIN Snapshot'
                 /\ Snapshot'[JobOf(path)].id = torrent_id)
                => SnapshotNode(path)'.type = "file"
      ]_vars

\* C9: a readdir of the root that succeeds lists, besides "." and "..",
\* exactly the sanitised names of the ready jobs, one entry for each ready job.
C9_RootListsReadyJobs ==
    (ret.op = "readdir" /\ ret.path = RootPath /\ ret.err = OK) =>
        /\ ret.val \ {Dot, DotDot} = {TorrentName(ReadyJob(i)) : i \in ReadyJobs}
        /\ Cardinality(ret.val \ {Dot, DotDot}) = Cardinality(ReadyJobs)

\* C10: once a snapshot is installed, the path of one segment made of the
\* sanitised name of a ready job resolves to that job's directory node,
\* whatever the raw display name.
C10_ReadyJobResolvesToDir ==
    StructureKey \in DOMAIN attr_cache =>
        \A i \in ReadyJobs :
            SnapshotNode(DirPath(TorrentName(ReadyJob(i)))).type = "dir"

\* C11: in an installed snapshot every ready job has a directory entry of
\* its own, carrying its id: two ready jobs whose names are equal after
\* sanitisation are two entries, neither replacing the other.
C11_CollidingJobsBothListed ==
    StructureKey \in DOMAIN attr_cache =>
        \A i \in ReadyJobs :
            \E name \in DOMAIN Snapshot : Snapshot[name].id = ReadyJob(i)["id"]

----------------------------------------------------------------------------
(* SpecThreads: MaxThreads clients, each opening its own file of one job,  *)
(* reading it and releasing it.  The handlers are taken statement by       *)
(* statement; which handler may take its next statement is decided by the  *)
(* dispatch of the FUSE loop.  The clock stands still, so the snapshot     *)
(* installed at the start stays fresh and no call rebuilds it.             *)

MaxThreads == 2
Threads == 1 .. MaxThreads

Digits == <<"1", "2", "3", "4", "5", "6", "7", "8", "9">>

\* the file of client t inside the job, and its path in the mount
ThreadFile(t) == <<"f", Digits[t]>>
ThreadPath(t) == <<"/", "a", "/">> \o ThreadFile(t)

\* the manifest of the job: one file per client
ThreadsManifest ==
    [files |-> [t \in Threads |-> FileInfo(t, <<"/">> \o ThreadFile(t), 2, "L1")]]

\* the first rebuild, run at time 0 against that job
ThreadsBuilt ==
    _get_torrents_structure([cache |-> EmptyDict, time |-> EmptyDict],
                            [cache |-> EmptyDict, time |-> EmptyDict],
                            Ok(<<Torrent("1", NameA, "downloaded")>>),
                            [torrent_id \in TorrentIds |-> Ok(ThreadsManifest)], 0)

\* pc is the statement the client's handler executes next; loaded, fd, node
\* and link are the handler's locals; peak is the number of handles in the
\* table when the client's open returned
InitThreads ==
    /\ clock = 0
    /\ attr_cache = ThreadsBuilt.fs.cache
    /\ attr_cache_time = ThreadsBuilt.fs.time
    /\ api_cache = ThreadsBuilt.api.cache
    /\ api_cache_time = ThreadsBuilt.api.time
    /\ fd_counter = 0
    /\ open_files = EmptyDict
    /\ ret = NoCall
    /\ threads = [t \in Threads |->
                    [pc |-> "open", path |-> ThreadPath(t), fd |-> 0, loaded |-> 0,
                     node |-> NoNode, link |-> None, peak |-> 0]]

\* the positions inside a handler, between its entry and its return
MidCall == {"load", "store", "fd", "insert", "exchange", "fetch", "del",
            "list", "job", "install", "resolve"}

\* a dispatch with a thread per request: any handler may step at any time
DispatchThreaded(t) == TRUE

\* line 280, nothreads=True: the FUSE loop hands the next request to its
\* handler once the handler of the previous one has returned
Dispatch(t) == \A u \in Threads \ {t} : threads[u].pc \notin MidCall

At(t, pc) == Dispatch(t) /\ threads[t].pc = pc

\* line 166 and 168-169
TOpenResolve(t) ==
    /\ At(t, "open")
    /\ \E r \in {_resolve_path(threads[t].path, FS, API, NoRequest,
                               [torrent_id \in TorrentIds |-> NoRequest], clock)} :
          /\ Install(r)
          /\ IF r.raised
             THEN /\ ret' = Outcome("open", threads[t].path, 0, Exception, None, {}, {})
                  /\ threads' = [threads EXCEPT ![t].pc = "done"]
             ELSE IF OpenRefused(r.node)
             THEN /\ ret' = Outcome("open", threads[t].path, 0, ENOENT, None, {}, {})
                  /\ threads' = [threads EXCEPT ![t].pc = "done"]
             ELSE /\ threads' = [threads EXCEPT ![t].pc = "load", ![t].node = r.node]
                  /\ UNCHANGED ret
    /\ UNCHANGED <<clock, fd_counter, open_files>>

\* line 171, self.fd_counter += 1: the attribute is loaded ...
TOpenLoad(t) ==
    /\ At(t, "load")
    /\ threads' = [threads EXCEPT ![t].pc = "store", ![t].loaded = fd_counter]
    /\ UNCHANGED <<clock, fsState, apiState, ret>>

\* ... and the sum is stored
TOpenStore(t) ==
    /\ At(t, "store")
    /\ fd_counter' = threads[t].loaded + 1
    /\ threads' = [threads EXCEPT ![t].pc = "fd"]
    /\ UNCHANGED <<clock, attr_cache, attr_cache_time, open_files, apiState, ret>>

\* line 172: fd = self.fd_counter
TOpenFd(t) ==
    /\ At(t, "fd")
    /\ threads' = [threads EXCEPT ![t].pc = "insert", ![t].fd = fd_counter]
    /\ UNCHANGED <<clock, fsState, apiState, ret>>

\* lines 174-181
TOpenInsert(t) ==
    /\ At(t, "insert")
    /\ open_files' = Put(open_files, threads[t].fd,
                         OpenEntry(threads[t].path, threads[t].node))
    /\ ret' = Outcome("open", threads[t].path, threads[t].fd, OK, threads[t].fd, {}, {})
    /\ threads' = [threads EXCEPT ![t].pc = "read",
                                  ![t].peak = Cardinality(DOMAIN open_files')]
    /\ UNCHANGED <<clock, attr_cache, attr_cache_time, fd_counter, apiState>>

\* the outcome of the read of client t: the whole file, from offset 0
TReadOutcome(t, rangeResp, err, val, reqs, failed) ==
    ReadOutcome(threads[t].path, Get(threads[t].node, "size", 0), 0, threads[t].fd,
                rangeResp, err, val, reqs, failed)

\* lines 185-195: the tests before the first request of read
TReadCheck(t) ==
    /\ At(t, "read")
    /\ LET fh == threads[t].fd
       IN IF fh \notin DOMAIN open_files
          THEN /\ ret' = TReadOutcome(t, NoRequest, EBADF, None, {}, {})
               /\ threads' = [threads EXCEPT ![t].pc = "release"]
          ELSE IF Falsy(LinkOf(fh))
          THEN /\ ret' = TReadOutcome(t, NoRequest, EIO, None, {}, {})
               /\ threads' = [threads EXCEPT ![t].pc = "release"]
          ELSE /\ threads' = [threads EXCEPT
                                ![t].pc = IF Falsy(open_files[fh].download_url)
                                          THEN "exchange" ELSE "fetch",
                                ![t].link = LinkOf(fh)]
               /\ UNCHANGED ret
    /\ UNCHANGED <<clock, fsState, apiState>>

\* lines 196-201: the link is exchanged and the URL stored in the entry; a
\* failed exchange, or an entry gone meanwhile, is EIO
TReadExchange(t) ==
    /\ At(t, "exchange")
    /\ \E unrestrictResp \in UnrestrictResponses(threads[t].link) :
          LET fh == threads[t].fd
          IN IF Raises(unrestrictResp) \/ fh \notin DOMAIN open_files
             THEN /\ ret' = TReadOutcome(t, NoRequest, EIO, None,
                                    {UnrestrictRequest},
                                    IF Raises(unrestrictResp)
                                    THEN {UnrestrictRequest} ELSE {})
                  /\ threads' = [threads EXCEPT ![t].pc = "release"]
                  /\ UNCHANGED open_files
             ELSE /\ open_files' =
                        Memoized(open_files, fh,
                                 Get(unrestrictResp.body, "download", EmptyStr))
                  /\ threads' = [threads EXCEPT ![t].pc = "fetch"]
                  /\ UNCHANGED ret
    /\ UNCHANGED <<clock, attr_cache, attr_cache_time, fd_counter, apiState>>

\* lines 203-218: the URL is taken from the entry and the whole file asked for
TReadFetch(t) ==
    /\ At(t, "fetch")
    /\ LET fh == threads[t].fd
       IN IF fh \notin DOMAIN open_files
          THEN ret' = TReadOutcome(t, NoRequest, Exception, None, {}, {})
          ELSE \E rangeResp \in
                    IF Falsy(open_files[fh].download_url) THEN {NoRequest}
                    ELSE RangeResponses(open_files[fh].download_url, 0,
                                        Get(threads[t].node, "size", 0)) :
                  ret' = IF Falsy(open_files[fh].download_url)
                         THEN TReadOutcome(t, rangeResp, EIO, None, {}, {})
                         ELSE IF Raises(rangeResp)
                                 \/ rangeResp.body.status_code \notin AcceptedStatus
                         THEN TReadOutcome(t, rangeResp, EIO, None,
                                      {RangeRequest}, {RangeRequest})
                         ELSE TReadOutcome(t, rangeResp, OK,
                                      rangeResp.body.content, {RangeRequest}, {})
    /\ threads' = [threads EXCEPT ![t].pc = "release"]
    /\ UNCHANGED <<clock, fsState, apiState>>

\* line 222: if fh in self.open_files
TReleaseCheck(t) ==
    /\ At(t, "release")
    /\ IF threads[t].fd \in DOMAIN open_files
       THEN /\ threads' = [threads EXCEPT ![t].pc = "del"]
            /\ UNCHANGED ret
       ELSE /\ threads' = [threads EXCEPT ![t].pc = "done"]
            /\ ret' = Outcome("release", threads[t].path, threads[t].fd, OK, 0, {}, {})
    /\ UNCHANGED <<clock, fsState, apiState>>

\* lines 223-224: del self.open_files[fh], a KeyError when the entry is gone
TReleaseDel(t) ==
    /\ At(t, "del")
    /\ IF threads[t].fd \in DOMAIN open_files
       THEN /\ open_files' = Del(open_files, threads[t].fd)
            /\ ret' = Outcome("release", threads[t].path, threads[t].fd, OK, 0, {}, {})
       ELSE /\ ret' = Outcome("release", threads[t].path, threads[t].fd, Exception,
                              None, {}, {})
            /\ UNCHANGED open_files
    /\ threads' = [threads EXCEPT ![t].pc = "done"]
    /\ UNCHANGED <<clock, attr_cache, attr_cache_time, fd_counter, apiState>>

NextThreads ==
    \E t \in Threads :
        \/ TOpenResolve(t) \/ TOpenLoad(t) \/ TOpenStore(t) \/ TOpenFd(t)
        \/ TOpenInsert(t)
        \/ TReadCheck(t) \/ TReadExchange(t) \/ TReadFetch(t)
        \/ TReleaseCheck(t) \/ TReleaseDel(t)

SpecThreads == InitThreads /\ [][NextThreads]_vars

\* the open of client t has returned a handle
Opened(t) == threads[t].pc \notin {"open", "load", "store", "fd", "insert"}
             /\ threads[t].fd # 0

\* C8: when the clients open distinct files of one job concurrently, read
\* them and release each handle once, the handles returned are pairwise
\* distinct, and the handle table is empty once every release has returned.
C8_ConcurrentOpensDistinct ==
    /\ \A t, u \in Threads :
          (t # u /\ Opened(t) /\ Opened(u)) => threads[t].fd # threads[u].fd
    /\ (\A t \in Threads : threads[t].pc = "done") => open_files = EmptyDict

\* every client has opened, read and released, and at one time all the
\* handles were open together
C8_Witness ==
    /\ \A t \in Threads : threads[t].pc = "done" /\ threads[t].fd # 0
    /\ \E t \in Threads : threads[t].peak = MaxThreads
    /\ ret.op = "release"

----------------------------------------------------------------------------
(* SpecFiles: one ready job whose manifest has a file with a link, a file  *)
(* without one and a file after it; the files are opened and read through  *)
(* windows that start inside the file and at its end.                      *)

PathG == <<"/", "g">>
PathH == <<"/", "h">>

\* the second file has no "links" field
ManifestUnlinked ==
    [files |-> <<FileInfo(1, PathF, 2, "L1"),
                 [id |-> 2, path |-> PathG, bytes |-> 3],
                 FileInfo(3, PathH, 3, "L2")>>]

\* the second file has an empty list of links
ManifestEmptyLinks ==
    [files |-> <<FileInfo(1, PathF, 2, "L1"),
                 [id |-> 2, path |-> PathG, bytes |-> 3, links |-> <<>>],
                 FileInfo(3, PathH, 3, "L2")>>]

FilesLists == {<<Torrent("1", NameA, "downloaded")>>}
FilesAnswers ==
    [torrent_id \in TorrentIds |-> {Ok(ManifestUnlinked), Ok(ManifestEmptyLinks)}]

PathAG == PathA \o PathG
PathAH == PathA \o PathH

\* <<size, offset>>: the first byte of "/a/f", and a window at its end
FilesWindows == {<<1, 0>>, <<1, 2>>}

FGetattr == CallGetattr({PathAG, PathAH}, FilesLists, FilesAnswers)
FReaddir == CallReaddir({PathA}, FilesLists, FilesAnswers)
FOpen == CallOpen({PathAF, PathAG}, FilesLists, FilesAnswers)
FRead == CallRead(PathAF, Handles, FilesWindows)
FRelease == CallRelease(PathAF, Handles)

NextFiles == FGetattr \/ FReaddir \/ FOpen \/ FRead \/ FRelease \/ Tick

SpecFiles == Init /\ [][NextFiles]_vars

\* C13: an open that returns a handle is an open of a file that has a link:
\* a file without one is refused at open time.
C13_OpenRefusesUnlinked ==
    (ret.op = "open" /\ ret.err = OK) =>
        ~Falsy(Get(open_files[ret.val].info, "link", None))

\* the manifest the client holds for a job
ManifestOf(torrent_id) == api_cache[InfoKey(torrent_id)]

\* the path in the mount of a file of a job
FilePath(torrent, file_info) ==
    DirPath(TorrentName(torrent)) \o <<"/">> \o StripSlash(Get(file_info, "path", <<>>))

\* C14: in an installed snapshot every file of the manifest of a ready job
\* is present, whether or not its entry carries a link.
C14_UnlinkedFilesListed ==
    StructureKey \in DOMAIN attr_cache =>
        \A i \in ReadyJobs :
            InfoKey(ReadyJob(i)["id"]) \in DOMAIN api_cache =>
                \A k \in DOMAIN Get(ManifestOf(ReadyJob(i)["id"]), "files", <<>>) :
                    SnapshotNode(FilePath(ReadyJob(i),
                                          ManifestOf(ReadyJob(i)["id"]).files[k])).type
                        = "file"

\* the size the snapshot gave for the file behind an open handle
SizeOf(fh) == Get(HandleInfo(fh), "size", 0)

\* C15: a read at the offset that equals the size of the file, on a remote
\* that honours the range (it answers 206 or 416), returns zero bytes and no
\* error.
C15_ReadAtEndIsEmpty ==
    (/\ ret.op = "read"
     /\ ret.fh \in DOMAIN open_files
     /\ ret.offset = SizeOf(ret.fh)
     /\ ret.status \in {206, 416})
    => (ret.err = OK /\ ret.val = <<>>)

\* C16: a read that succeeds returns at most the length asked for and at most
\* the bytes between the offset and the size of the file.
C16_ReadWithinWindow ==
    (ret.op = "read" /\ ret.err = OK /\ ret.fh \in DOMAIN open_files) =>
        /\ Len(ret.val) <= ret.size
        /\ Len(ret.val) <= SizeOf(ret.fh) - ret.offset

\* C19: a read whose range request on the URL stored on the handle is
\* answered 403 exchanges the link again before it reports failure.
C19_ExpiredUrlReexchanged ==
    [][(/\ ret'.op = "read"
        /\ ret'.fh \in DOMAIN open_files
        /\ ~Falsy(open_files[ret'.fh].download_url)
        /\ ret'.status = 403)
       => UnrestrictRequest \in ret'.reqs
      ]_vars

\* C21: a read whose URL exchange fails ends in EIO with no bytes, and the
\* handle stays in the table exactly as it was, its download URL unset; a
\* read on a handle whose download URL is unset, for a file that has a link,
\* issues the exchange (again).
C21_ExchangeFailureLeavesHandle ==
    [][\A fh \in DOMAIN open_files :
         /\ (ret'.op = "read" /\ ret'.fh = fh /\ UnrestrictRequest \in ret'.failed)
              => /\ ret'.err = EIO
                 /\ ret'.val = None
                 /\ fh \in DOMAIN open_files'
                 /\ open_files'[fh] = open_files[fh]
                 /\ open_files'[fh].download_url = None
         /\ (/\ ret'.op = "read" /\ ret'.fh = fh
             /\ open_files[fh].download_url = None
             /\ ~Falsy(Get(open_files[fh].info, "link", None)))
              => UnrestrictRequest \in ret'.reqs
      ]_vars

\* C21 witness: a read has just failed in its exchange, and its handle is
\* still open with no download URL
C21_Witness ==
    /\ ret.op = "read"
    /\ ret.err = EIO
    /\ UnrestrictRequest \in ret.failed
    /\ ret.fh \in DOMAIN open_files
    /\ open_files[ret.fh].download_url = None

\* C22: a read that sent its range request succeeds when the answer's status
\* is 200 or 206; on any other status, or when the request fails in
\* transport, it ends in EIO and hands back no bytes.
C22_RangeStatusDecides ==
    (ret.op = "read" /\ RangeRequest \in ret.reqs)
       => IF ret.status \in {200, 206}
          THEN ret.err = OK /\ ret.val # None
          ELSE ret.err = EIO /\ ret.val = None

\* C22 witness: a range request that failed in transport, reported as EIO
C22_Witness ==
    /\ ret.op = "read"
    /\ RangeRequest \in ret.failed
    /\ ret.status = 0
    /\ ret.err = EIO

\* the key of a file path inside its job: the segments after the first
FileKey(path) == Join(Tail(_get_path_parts(path)))

\* the sizes the manifest of a job gives for the file stored under a key
ManifestSizes(torrent_id, file_path) ==
    IF InfoKey(torrent_id) \notin DOMAIN api_cache THEN {}
    ELSE {Get(ManifestOf(torrent_id).files[k], "bytes", 0) :
            k \in {k \in DOMAIN ManifestOf(torrent_id).files :
                     StripSlash(Get(ManifestOf(torrent_id).files[k], "path", <<>>))
                        = file_path}}

\* C18: every file of the installed snapshot carries exactly the size its
\* manifest entry gives, and a getattr on a file reports that size; the sizes
\* of a snapshot stay what they are until a rebuild replaces it.
C18_SizeIsManifestSize ==
    /\ \A name \in DOMAIN Snapshot :
          \A file_path \in DOMAIN Snapshot[name].files :
              ManifestSizes(Snapshot[name].id, file_path)
                 = {Snapshot[name].files[file_path].size}
    /\ (ret.op = "getattr" /\ ret.err = OK /\ SnapshotNode(ret.path).type = "file")
          => ret.val.st_size = SnapshotNode(ret.path).size

\* C18 witness: a getattr answered from the cached snapshot, with no rebuild,
\* reports the 3 bytes of the file of job 2
C18_Witness ==
    /\ ret.op = "getattr"
    /\ ret.err = OK
    /\ ret.path = PathAF
    /\ ret.reqs = {}
    /\ Snapshot[JobOf(ret.path)].id = "2"
    /\ ret.val.st_size = 3
    /\ ManifestSizes("2", FileKey(ret.path)) = {3}

----------------------------------------------------------------------------
(* SpecChunks: a client opens "/a/f", reads it whole with one read of the  *)
(* file's size from offset 0, then reads it again as consecutive windows   *)
(* of a fixed size and concatenates what the reads return.  threads holds, *)
(* per handle, where its client is: pc, the window size chosen, the next   *)
(* offset, the bytes of the whole read and the bytes collected so far.     *)

\* one byte at a time, the size of the file, more than the file
ChunkSizes == {1, 2, 3}

ChunksLists == {<<Torrent("1", NameA, "downloaded")>>}

\* the client of a handle before its first read
NewReader(chunk) ==
    [pc |-> "whole", chunk |-> chunk, offset |-> 0, whole |-> <<>>, data |-> <<>>]

\* the client after a read returned outcome, size_bytes being the file's size
Advance(reader, outcome, size_bytes) ==
    IF outcome.err # OK THEN [reader EXCEPT !.pc = "failed"]
    ELSE IF reader.pc = "whole"
    THEN [reader EXCEPT !.pc = "chunks", !.whole = outcome.val]
    ELSE [reader EXCEPT !.data = @ \o outcome.val,
                        !.offset = @ + reader.chunk,
                        !.pc = IF reader.offset + reader.chunk >= size_bytes
                               THEN "done" ELSE "chunks"]

\* the next read of the client of handle fh
ChunkReadBy(fh, reader, size) ==
    /\ reader.pc \in {"whole", "chunks"}
    /\ \E unrestrictResp \in UnrestrictChoices(fh) :
         \E rangeResp \in RangeChoices(fh, size, reader.offset, unrestrictResp) :
            /\ ReadCall(ReadPath, size, reader.offset, fh, unrestrictResp, rangeResp)
            /\ threads' = Put(threads, fh, Advance(reader, ret', SizeOf(fh)))

ChunkRead ==
    \E fh \in DOMAIN open_files :
       \E chunk \in (IF fh \in DOMAIN threads THEN {threads[fh].chunk} ELSE ChunkSizes) :
          \E reader \in {IF fh \in DOMAIN threads THEN threads[fh] ELSE NewReader(chunk)} :
             ChunkReadBy(fh, reader, IF reader.pc = "whole" THEN SizeOf(fh) ELSE chunk)

COpen == CallOpen({ReadPath}, ChunksLists, ManifestOk)
CRelease == CallRelease(ReadPath, Handles)

NextChunks == COpen \/ ChunkRead \/ CRelease

SpecChunks == Init /\ [][NextChunks]_vars

\* C17: when the whole read and every window read of a client have
\* succeeded, the concatenation of the window reads is the bytes of the
\* whole read.
C17_ChunksEqualWhole ==
    \A fh \in DOMAIN threads :
        threads[fh].pc = "done" => threads[fh].data = threads[fh].whole

----------------------------------------------------------------------------
(* The rebuild of the snapshot, statement by statement, under clients that *)
(* call getattr again and again while the clock moves.                     *)

NameB == <<"b">>

\* the catalog of the remote: job 1, with or without job 2 beside it
RebuildLists ==
    {<<Torrent("1", NameA, "downloaded")>>,
     <<Torrent("1", NameA, "downloaded"), Torrent("2", NameB, "downloaded")>>}

RebuildPaths == {PathA, PathAF}

\* the locals of a handler that has not started: now is current_time (line
\* 38), todo the torrents the loop of line 48 has still to visit, acc the
\* local dict `structure` with the requests issued for it, structure what
\* _get_torrents_structure returned; built is the time under which the
\* client last stored a snapshot, -1 when it never did
Waiting(built) ==
    [pc |-> "call", path |-> RootPath, now |-> 0, todo |-> <<>>,
     acc |-> [structure |-> EmptyDict, reqs |-> {}, failed |-> {}],
     structure |-> EmptyDict, built |-> built]

InitRebuild ==
    /\ clock = 0
    /\ api_cache = EmptyDict
    /\ api_cache_time = EmptyDict
    /\ attr_cache = EmptyDict
    /\ attr_cache_time = EmptyDict
    /\ fd_counter = 0
    /\ open_files = EmptyDict
    /\ ret = NoCall
    /\ threads = [t \in Threads |-> Waiting(-1)]

\* the positions of _get_torrents_structure between lines 45 and 83
Rebuilding == {"list", "job", "install"}

\* lines 46-79 building in the dict the cache holds: every step is stored
WalkedInPlace(fs, acc, now) ==
    [cache |-> Put(fs.cache, StructureKey, acc.structure),
     time |-> Put(fs.time, StructureKey, now)]

\* lines 46-79: `structure = {}` is a local dict, the loop fills it and
\* self._attr_cache is not touched before line 81
WalkedLocal(fs, acc, now) == fs

\* getattr(path), lines 112-114 and 38-43: the time is taken and the cache
\* tested; a fresh snapshot is returned as it is
RCheck(t) ==
    /\ At(t, "call")
    /\ \E path \in RebuildPaths :
          threads' = [threads EXCEPT
                        ![t].path = path,
                        ![t].now = clock,
                        ![t].pc = IF StructureFresh(FS, clock) THEN "resolve" ELSE "list",
                        ![t].structure = IF StructureFresh(FS, clock)
                                         THEN attr_cache[StructureKey] ELSE EmptyDict]
    /\ UNCHANGED <<clock, fsState, apiState, ret>>

\* line 45: torrents = self.api.get_torrents(); when it raises, the
\* exception leaves getattr
RList(t) ==
    /\ At(t, "list")
    /\ \E listResp \in IF ApiFresh(API, TorrentsKey, clock) THEN {NoRequest}
                       ELSE {Ok(l) : l \in RebuildLists} \cup {Raise} :
         \E got \in {get_torrents(API, listResp, clock)} :
            /\ api_cache' = got.api.cache
            /\ api_cache_time' = got.api.time
            /\ IF got.raised
               THEN /\ ret' = Outcome("getattr", threads[t].path, 0, Exception, None,
                                      got.reqs, got.failed)
                    /\ threads' = [threads EXCEPT ![t] = Waiting(threads[t].built)]
               ELSE /\ threads' = [threads EXCEPT
                                     ![t].pc = "job",
                                     ![t].todo = got.value,
                                     ![t].acc = [structure |-> EmptyDict,
                                                 reqs |-> got.reqs, failed |-> {}]]
                    /\ UNCHANGED ret
    /\ UNCHANGED <<clock, fsState>>

\* one round of the loop of lines 48-79, or its end
RJob(t) ==
    /\ At(t, "job")
    /\ IF threads[t].todo = <<>>
       THEN /\ threads' = [threads EXCEPT ![t].pc = "install"]
            /\ UNCHANGED <<fsState, apiState>>
       ELSE LET torrent == Head(threads[t].todo)
            IN IF Get(torrent, "status", None) # "downloaded"
               THEN /\ threads' = [threads EXCEPT ![t].todo = Tail(threads[t].todo)]
                    /\ UNCHANGED <<fsState, apiState>>
               ELSE \E infoResp \in IF ApiFresh(API, InfoKey(torrent["id"]), clock)
                                    THEN {NoRequest}
                                    ELSE {Ok(Manifest(torrent["id"])), Raise} :
                      \E r \in {AddTorrent([structure |-> threads[t].acc.structure,
                                            api |-> API,
                                            reqs |-> threads[t].acc.reqs,
                                            failed |-> threads[t].acc.failed],
                                           torrent,
                                           get_torrent_info(API, torrent["id"],
                                                            infoResp, clock))} :
                         /\ api_cache' = r.api.cache
                         /\ api_cache_time' = r.api.time
                         /\ threads' = [threads EXCEPT
                                          ![t].todo = Tail(threads[t].todo),
                                          ![t].acc = [structure |-> r.structure,
                                                      reqs |-> r.reqs,
                                                      failed |-> r.failed]]
                         /\ \E fs \in {WalkedLocal(FS, r, threads[t].now)} :
                               /\ attr_cache' = fs.cache
                               /\ attr_cache_time' = fs.time
                               /\ UNCHANGED <<fd_counter, open_files>>
    /\ UNCHANGED <<clock, ret>>

\* lines 81-83: the finished dict is stored under the time taken at line 38
RInstall(t) ==
    /\ At(t, "install")
    /\ \E r \in {Stored(FS, [structure |-> threads[t].acc.structure, api |-> API,
                             reqs |-> threads[t].acc.reqs,
                             failed |-> threads[t].acc.failed],
                        threads[t].now)} :
          /\ attr_cache' = r.fs.cache
          /\ attr_cache_time' = r.fs.time
          /\ threads' = [threads EXCEPT ![t].pc = "resolve",
                                        ![t].structure = r.structure,
                                        ![t].built = threads[t].now]
    /\ UNCHANGED <<clock, fd_counter, open_files, apiState, ret>>

\* lines 93-110 and 116-139 on the structure returned
RResolve(t) ==
    /\ At(t, "resolve")
    /\ \E node \in {ResolveIn(threads[t].structure, _get_path_parts(threads[t].path))} :
          ret' = IF IsNone(node)
                 THEN Outcome("getattr", threads[t].path, 0, ENOENT, None,
                              threads[t].acc.reqs, threads[t].acc.failed)
                 ELSE Outcome("getattr", threads[t].path, 0, OK, Attributes(node, clock),
                              threads[t].acc.reqs, threads[t].acc.failed)
    /\ threads' = [threads EXCEPT ![t] = Waiting(threads[t].built)]
    /\ UNCHANGED <<clock, fsState, apiState>>

NextRebuild ==
    \/ \E t \in Threads : RCheck(t) \/ RList(t) \/ RJob(t) \/ RInstall(t) \/ RResolve(t)
    \/ Tick

SpecRebuild == InitRebuild /\ [][NextRebuild]_vars

\* C23: at no time are two rebuilds of the snapshot under way, and no two
\* clients have stored a snapshot for the same moment: of the calls that
\* find the snapshot expired together, one rebuilds, and the others, which
\* wait for it to return, are answered from the snapshot it stored.
C23_OneRebuildAtATime ==
    /\ Cardinality({t \in Threads : threads[t].pc \in Rebuilding}) <= 1
    /\ \A t, u \in Threads :
          (t # u /\ threads[t].built >= 0) => threads[t].built # threads[u].built

\* C23 witness: the snapshot of an earlier rebuild has expired, one client
\* is inside the loop of its rebuild and the call of another is waiting
C23_Witness ==
    \E t, u \in Threads :
        /\ t # u
        /\ threads[t].pc = "job"
        /\ threads[u].pc = "call"
        /\ threads[u].built >= 0
        /\ StructureKey \in DOMAIN attr_cache
        /\ ~StructureFresh(FS, clock)

\* C24: the snapshot in the cache changes in one step only, in which a
\* rebuild that has visited its whole list stores the tree it built; and a
\* call that returns has resolved its path against the snapshot the cache
\* holds, never against a tree still being built.
C24_SnapshotReplacedWhole ==
    [][/\ (attr_cache' # attr_cache \/ attr_cache_time' # attr_cache_time)
            => \E t \in Threads :
                  /\ threads[t].pc = "install"
                  /\ threads[t].todo = <<>>
                  /\ attr_cache' = Put(attr_cache, StructureKey, threads[t].acc.structure)
       /\ \A t \in Threads :
            (threads[t].pc = "resolve" /\ threads'[t].pc = "call")
               => /\ StructureKey \in DOMAIN attr_cache
                  /\ threads[t].structure = attr_cache[StructureKey]
      ]_vars

\* C24 witness: a rebuild has put the first of two jobs into its tree while
\* the cache still holds the snapshot of the rebuild before it
C24_Witness ==
    \E t \in Threads :
        /\ threads[t].pc = "job"
        /\ threads[t].todo # <<>>
        /\ threads[t].acc.structure # EmptyDict
        /\ StructureKey \in DOMAIN attr_cache
        /\ attr_cache[StructureKey] # threads[t].acc.structure

----------------------------------------------------------------------------
(* The catalog calls again: errors, the first rebuild, the age of the      *)
(* snapshot and the modes getattr reports.  Checked under Spec.            *)

\* C26: every getattr and readdir ends in a result or in one of the typed
\* errors; no failure of the remote leaves the call as another exception.
C26_OnlyTypedErrors ==
    ret.op \in {"getattr", "readdir", "open", "read"}
       => ret.err \in {OK, ENOENT, EBADF, EIO}

\* the call that has just returned went to _get_torrents_structure
Consulted(outcome) ==
    \/ outcome.op = "readdir"
    \/ outcome.op = "getattr" /\ outcome.path # RootPath

\* C27: while no snapshot has been stored, a call whose listing request
\* fails ends in an error and hands back nothing, neither cache is written,
\* and every call that needs the snapshot sends the listing request (again).
C27_FirstRebuildFailureRetried ==
    [][StructureKey \notin DOMAIN attr_cache =>
         /\ TorrentsRequest \in ret'.failed
               => /\ ret'.err # OK
                  /\ ret'.val = None
                  /\ UNCHANGED <<attr_cache, attr_cache_time, api_cache, api_cache_time>>
         /\ Consulted(ret') => TorrentsRequest \in ret'.reqs
      ]_vars

\* C27 witness: a readdir of the root, made after an earlier failure and
\* some time, has failed on the listing again and there is still no snapshot
C27_Witness ==
    /\ ret.op = "readdir"
    /\ ret.path = RootPath
    /\ TorrentsRequest \in ret.failed
    /\ ret.err # OK
    /\ attr_cache = EmptyDict
    /\ api_cache = EmptyDict
    /\ clock > 0

\* the age of the stored snapshot
Age == clock - attr_cache_time[StructureKey]

\* C28 as stated: a snapshot whose age does not exceed the TTL is returned
\* as it is, with no remote request and nothing stored.
C28_FreshUpToTTL ==
    [][(StructureKey \in DOMAIN attr_cache /\ Consulted(ret') /\ Age <= cache_ttl)
         => /\ ret'.reqs = {}
            /\ UNCHANGED <<attr_cache, attr_cache_time, api_cache, api_cache_time>>
      ]_vars

\* C28, amended: a snapshot younger than the TTL is returned as it is, with
\* no remote request and nothing stored; once its age has reached the TTL,
\* the next call that consults it, unless the listing fails, stores a
\* snapshot under the time of the call, made of the ready jobs of the list
\* the API client holds.
C28_FreshBelowTTL ==
    [][(StructureKey \in DOMAIN attr_cache /\ Consulted(ret'))
         => /\ Age < cache_ttl
               => /\ ret'.reqs = {}
                  /\ UNCHANGED <<attr_cache, attr_cache_time,
                                 api_cache, api_cache_time>>
            /\ (Age >= cache_ttl /\ ret'.err # Exception)
               => /\ attr_cache_time'[StructureKey] = clock
                  /\ SnapshotFollowsList'
      ]_vars

\* C28 witness: a getattr at the very age of the TTL has rebuilt the
\* snapshot, from the list the API client fetched at time 0
C28_Witness ==
    /\ ret.op = "getattr"
    /\ ret.path # RootPath
    /\ ret.err # Exception
    /\ clock = cache_ttl
    /\ StructureKey \in DOMAIN attr_cache
    /\ attr_cache_time[StructureKey] = clock
    /\ TorrentsKey \in DOMAIN api_cache
    /\ api_cache_time[TorrentsKey] = 0

\* C30: getattr reports a regular file of mode 0444 for a file node, and a
\* directory of mode 0555 for the root and for a job directory.
C30_ReadOnlyModes ==
    (ret.op = "getattr" /\ ret.err = OK)
       => ret.val.st_mode = IF SnapshotNode(ret.path).type = "file"
                            THEN <<S_IFREG, 292>>      \* 0o444
                            ELSE <<S_IFDIR, 365>>      \* 0o555

\* C35: a call that rebuilds the snapshot sends the listing request, and a
\* manifest request for every ready job of the list, to the remote.
C35_RebuildAsksRemote ==
    [][(Consulted(ret') /\ attr_cache_time' # attr_cache_time)
         => /\ TorrentsRequest \in ret'.reqs
            /\ \A i \in ReadyJobs' : InfoRequest(ReadyJob(i)'["id"]) \in ret'.reqs
      ]_vars

\* what the API client holds under a key, value and time
Held(cache, time, cache_key) ==
    [value |-> IF cache_key \in DOMAIN cache THEN <<cache[cache_key]>> ELSE <<>>,
     time |-> IF cache_key \in DOMAIN time THEN <<time[cache_key]>> ELSE <<>>]

\* C39: a call whose listing request failed leaves the API client's cache
\* as it was and ends in the exception; a call in which the manifest request
\* of a job failed leaves what the client holds for that job as it was, and
\* the failure reaches the rebuild, which stores the job without files; and
\* a rebuild sends the request for every value the client does not hold
\* fresh, also after a failure.
C39_FailedFetchNotCached ==
    [][/\ TorrentsRequest \in ret'.failed
            => /\ UNCHANGED <<api_cache, api_cache_time>>
               /\ ret'.err = Exception
       /\ \A torrent_id \in TorrentIds :
            InfoRequest(torrent_id) \in ret'.failed
               => /\ Held(api_cache', api_cache_time', InfoKey(torrent_id))
                       = Held(api_cache, api_cache_time, InfoKey(torrent_id))
                  /\ \A name \in DOMAIN Snapshot' :
                        Snapshot'[name].id = torrent_id
                           => Snapshot'[name].files = EmptyDict
       /\ (Consulted(ret') /\ clock' = clock /\ ~StructureFresh(FS, clock))
            => /\ ~ApiFresh(API, TorrentsKey, clock) => TorrentsRequest \in ret'.reqs
               /\ ret'.err # Exception
                    => \A i \in ReadyJobs' :
                          ~ApiFresh(API, InfoKey(ReadyJob(i)'["id"]), clock)
                             => InfoRequest(ReadyJob(i)'["id"]) \in ret'.reqs
      ]_vars

\* C39 witness: the manifest request of job 1 has failed, in a rebuild made
\* after an earlier one, and the client holds the list but no manifest of it
C39_Witness ==
    /\ InfoRequest("1") \in ret.failed
    /\ ret.err # Exception
    /\ clock > 0
    /\ TorrentsKey \in DOMAIN api_cache
    /\ InfoKey("1") \notin DOMAIN api_cache

----------------------------------------------------------------------------
(* Path resolution: getattr over paths of one, two and three segments,     *)
(* against jobs whose manifest holds a file in a subdirectory.             *)

PathDE == <<"/", "d", "/", "e">>

\* a manifest with a file at the top and one below a directory
ManifestNested ==
    [files |-> <<FileInfo(1, PathF, 2, "L1"), FileInfo(2, PathDE, 3, "L2")>>]

ResolveLists ==
    {<<>>,
     <<Torrent("1", NameA, "downloaded")>>,
     <<Torrent("1", NameA, "downloaded"), Torrent("2", NameB, "downloading")>>}

ResolveAnswers == [torrent_id \in TorrentIds |-> {Ok(ManifestNested), Raise}]

\* "/", a job, files of the job, and paths that name no file: a directory of
\* the job, a file name below the wrong directory, a file of a job that is
\* not ready, a path below a file, and a file reached through "//"
ResolvePaths ==
    {RootPath, PathA, PathA \o PathF, PathA \o PathDE,
     PathA \o <<"/", "d">>, PathA \o <<"/", "e">>,
     <<"/", "b">> \o PathF, PathA \o PathF \o <<"/", "e">>,
     PathA \o <<"/">> \o PathF}

ResolveGetattr == CallGetattr(ResolvePaths, ResolveLists, ResolveAnswers)

NextResolve == ResolveGetattr \/ Tick

SpecResolve == Init /\ [][NextResolve]_vars

\* C29: a getattr of "/" always finds the root directory; a getattr of a
\* path of two or more segments finds a file exactly when its first segment
\* is a job of the snapshot and its other segments, joined by "/", are the
\* relative path of a file of that job, and ends in ENOENT otherwise.
C29_FileResolvesByJobAndRelativePath ==
    ret.op = "getattr" =>
        /\ ret.path = RootPath
              => ret.err = OK /\ ret.val.st_mode[1] = S_IFDIR
        /\ (Len(_get_path_parts(ret.path)) >= 2 /\ ret.err # Exception)
              => IF \E name \in DOMAIN Snapshot :
                      \E file_path \in DOMAIN Snapshot[name].files :
                          /\ name = _get_path_parts(ret.path)[1]
                          /\ file_path = Join(Tail(_get_path_parts(ret.path)))
                 THEN /\ ret.err = OK
                      /\ ret.val.st_mode[1] = S_IFREG
                      /\ ret.val.st_size =
                            Snapshot[_get_path_parts(ret.path)[1]]
                               .files[Join(Tail(_get_path_parts(ret.path)))].size
                 ELSE ret.err = ENOENT

\* C29 witness: the file below a directory of the job has been found by its
\* path of three segments
C29_Witness ==
    /\ ret.op = "getattr"
    /\ ret.path = PathA \o PathDE
    /\ ret.err = OK
    /\ ret.val.st_mode[1] = S_IFREG
    /\ ret.val.st_size = 3

----------------------------------------------------------------------------
(* read with its requests on the wire: a request is sent in one step and   *)
(* its answer, when there is one, arrives in another.  No request of the   *)
(* program carries a timeout (src/realdebrid_api.py:42 and 97,             *)
(* src/realdebrid_fs.py:210), so only the remote ends the wait.            *)

LivePath == ThreadPath(1)
LiveWindows == {<<2, 0>>, <<1, 1>>}

\* no call is running
Idle == [pc |-> "idle", fh |-> 0, size |-> 0, offset |-> 0,
         unrestrictResp |-> NoRequest, rangeResp |-> NoRequest]

InitLive ==
    /\ clock = 0
    /\ attr_cache = ThreadsBuilt.fs.cache
    /\ attr_cache_time = ThreadsBuilt.fs.time
    /\ api_cache = ThreadsBuilt.api.cache
    /\ api_cache_time = ThreadsBuilt.api.time
    /\ fd_counter = 0
    /\ open_files = EmptyDict
    /\ ret = NoCall
    /\ threads = Idle

\* open and release send nothing while the snapshot is fresh
LOpen ==
    /\ threads.pc = "idle"
    /\ open(LivePath, NoRequest, [torrent_id \in TorrentIds |-> NoRequest])

LRelease ==
    /\ threads.pc = "idle"
    /\ CallRelease(LivePath, Handles)

\* lines 185-196 and 203-210: read returns at once when it has nothing to
\* ask; else it sends the exchange (api.py:97, session.post without
\* timeout), or the range request on the URL it holds (line 210,
\* requests.get without timeout), and blocks
LReadSend ==
    /\ threads.pc = "idle"
    /\ \E fh \in Handles : \E w \in LiveWindows :
          IF fh \notin DOMAIN open_files \/ Falsy(LinkOf(fh))
          THEN ReadCall(LivePath, w[1], w[2], fh, NoRequest, NoRequest)
               /\ UNCHANGED threads
          ELSE /\ threads' = [Idle EXCEPT
                                !.pc = IF Falsy(open_files[fh].download_url)
                                       THEN "exchange" ELSE "fetch",
                                !.fh = fh, !.size = w[1], !.offset = w[2]]
               /\ UNCHANGED <<clock, fsState, apiState, ret>>

\* the remote answers the exchange, or the connection fails
LAnswerExchange ==
    /\ threads.pc = "exchange"
    /\ \E resp \in UnrestrictResponses(LinkOf(threads.fh)) :
          threads' = [threads EXCEPT !.pc = "exchanged", !.unrestrictResp = resp]
    /\ UNCHANGED <<clock, fsState, apiState, ret>>

\* lines 196-210 once the exchange has its answer: a failure is EIO, a URL
\* is used for the range request, which is sent
LExchanged ==
    /\ threads.pc = "exchanged"
    /\ IF Raises(threads.unrestrictResp)
       THEN /\ ReadCall(LivePath, threads.size, threads.offset, threads.fh,
                        threads.unrestrictResp, NoRequest)
            /\ threads' = Idle
       ELSE /\ threads' = [threads EXCEPT !.pc = "fetch"]
            /\ UNCHANGED <<clock, fsState, apiState, ret>>

\* the URL the range request of the running read goes to
LiveUrl ==
    IF Falsy(open_files[threads.fh].download_url)
    THEN Get(threads.unrestrictResp.body, "download", EmptyStr)
    ELSE open_files[threads.fh].download_url

\* the remote answers the range request, or the connection fails
LAnswerRange ==
    /\ threads.pc = "fetch"
    /\ \E resp \in RangeResponses(LiveUrl, threads.offset, threads.size) :
          threads' = [threads EXCEPT !.pc = "fetched", !.rangeResp = resp]
    /\ UNCHANGED <<clock, fsState, apiState, ret>>

\* lines 197 and 212-218 once the range request has its answer
LFetched ==
    /\ threads.pc = "fetched"
    /\ ReadCall(LivePath, threads.size, threads.offset, threads.fh,
                threads.unrestrictResp, threads.rangeResp)
    /\ threads' = Idle

NextLive ==
    \/ LOpen \/ LRelease \/ LReadSend
    \/ LAnswerExchange \/ LExchanged \/ LAnswerRange \/ LFetched

\* the handler takes its next statement whenever it can; an answer of the
\* remote arrives when the remote sends one
SpecLive ==
    InitLive /\ [][NextLive]_vars /\ WF_vars(LExchanged) /\ WF_vars(LFetched)

\* C25: every read that has been called returns, whatever the remote does.
C25_EveryCallReturns == (threads.pc # "idle") ~> (threads.pc = "idle")

----------------------------------------------------------------------------
(* The tree as a client walks it: getattr and readdir, one after another,  *)
(* while time passes in steps shorter than the lifetime of a snapshot.     *)

PathGQ == <<"/", "g", "?">>

\* a manifest with a file at the top, one below a directory and one whose
\* name holds a character outside the allow-list
ManifestTree ==
    [files |-> <<FileInfo(1, PathF, 2, "L1"), FileInfo(2, PathDE, 3, "L2"),
                 FileInfo(3, PathGQ, 1, "L1")>>]

TreeLists ==
    {<<Torrent("1", NameA, "downloaded")>>,
     <<Torrent("1", NameA, "downloaded"), Torrent("2", NameB, "downloaded")>>}

TreeAnswers == [torrent_id \in TorrentIds |-> {Ok(ManifestTree), Raise}]

TreePaths == {RootPath, PathA, PathA \o PathF, PathA \o <<"/", "d">>}

TreeGetattr == CallGetattr(TreePaths, TreeLists, TreeAnswers)
TreeReaddir == CallReaddir({RootPath, PathA}, TreeLists, TreeAnswers)

\* a third of the lifetime of a snapshot goes by between two calls
PassSeconds == cache_ttl \div 3

Pass ==
    /\ clock < MaxTicks * TickSeconds
    /\ clock' = clock + PassSeconds
    /\ UNCHANGED <<fsState, apiState, ret, threads>>

NextTree == TreeGetattr \/ TreeReaddir \/ Pass

SpecTree == Init /\ [][NextTree]_vars

\* C31: a getattr that follows a successful getattr of the same path, with
\* no snapshot stored by it or between the two, returns the same attributes,
\* timestamps included.
C31_RepeatedGetattrSame ==
    [][(/\ ret.op = "getattr" /\ ret.err = OK
        /\ ret'.op = "getattr" /\ ret'.path = ret.path
        /\ UNCHANGED <<attr_cache, attr_cache_time>>)
       => ret'.val = ret.val
      ]_vars

\* the characters a name of the tree may hold
AllowList == AlnumChars \cup {" ", "-", "_", ".", "(", ")"}

Safe(name) == \A i \in DOMAIN name : name[i] \in AllowList

\* C32: in the stored snapshot the name of every job directory, and every
\* component of the relative path of every file, is made of allow-list
\* characters only.  (Entries are dict keys: two of one name cannot coexist.)
C32_NamesAreSafe ==
    \A name \in DOMAIN Snapshot :
        /\ Safe(name)
        /\ \A file_path \in DOMAIN Snapshot[name].files :
              \A k \in DOMAIN Split(file_path) : Safe(Split(file_path)[k])

\* C37: every name a readdir of a job directory has returned, "." and ".."
\* apart, resolves in the snapshot it was read from.
C37_ListedNamesResolve ==
    (ret.op = "readdir" /\ ret.err = OK /\ ret.path # RootPath)
       => \A entry \in ret.val \ {Dot, DotDot} :
             ~IsNone(SnapshotNode(ret.path \o <<"/">> \o entry))

----------------------------------------------------------------------------
(* The five calls together, against one job, while time passes in steps    *)
(* shorter than the lifetime of a snapshot.                                *)

FrameAnswers == [torrent_id \in TorrentIds |-> {Ok(Manifest(torrent_id)), Raise}]
FrameWindows == {<<1, 0>>}

FrameGetattr == CallGetattr({PathAF}, FilesLists, FrameAnswers)
FrameReaddir == CallReaddir({PathA}, FilesLists, FrameAnswers)
FrameOpen == CallOpen({PathAF}, FilesLists, FrameAnswers)
FrameRead == CallRead(PathAF, Handles, FrameWindows)
FrameRelease == CallRelease(PathAF, Handles)

NextFrame ==
    FrameGetattr \/ FrameReaddir \/ FrameOpen \/ FrameRead \/ FrameRelease \/ Pass

SpecFrame == Init /\ [][NextFrame]_vars

\* C36: while the stored snapshot is younger than the TTL no call writes
\* the cache, and getattr, readdir and open issue no request; the cache is
\* written only by a getattr, readdir or open that rebuilds, which stores
\* a snapshot under the time of the call; read and release never write it.
C36_SnapshotNeverPatched ==
    [][/\ (StructureKey \in DOMAIN attr_cache /\ Age < cache_ttl)
            => /\ UNCHANGED <<attr_cache, attr_cache_time>>
               /\ (clock' = clock /\ ret'.op \in {"getattr", "readdir", "open"})
                     => ret'.reqs = {}
       /\ (attr_cache' # attr_cache \/ attr_cache_time' # attr_cache_time)
            => /\ ret'.op \in {"getattr", "readdir", "open"}
               /\ ~StructureFresh(FS, clock)
               /\ attr_cache_time'[StructureKey] = clock
      ]_vars

\* C36 witness: ten or twenty seconds after the snapshot was stored a read
\* has returned bytes and left its URL on the handle, and the node the
\* handle was opened on is the node the snapshot holds
C36_Witness ==
    /\ ret.op = "read"
    /\ ret.err = OK
    /\ StructureFresh(FS, clock)
    /\ clock > attr_cache_time[StructureKey]
    /\ ret.fh \in DOMAIN open_files
    /\ ~Falsy(open_files[ret.fh].download_url)
    /\ open_files[ret.fh].info = SnapshotNode(PathAF)

\* C38: every handle of the table lies in 1..fd_counter; fd_counter grows
\* by one with every open that returns a handle and is changed by nothing
\* else; a release of a handle that is not in the table returns success
\* and changes neither the table, the counter nor the caches.
C38_HandlesWithinCounter ==
    [][/\ \A fh \in DOMAIN open_files' : fh \in 1 .. fd_counter'
       /\ fd_counter' >= fd_counter
       /\ fd_counter' = IF clock' = clock /\ ret'.op = "open" /\ ret'.err = OK
                        THEN fd_counter + 1 ELSE fd_counter
       /\ (clock' = clock /\ ret'.op = "release" /\ ret'.fh \notin DOMAIN open_files)
            => /\ ret'.err = OK
               /\ UNCHANGED <<open_files, fd_counter, attr_cache, attr_cache_time,
                              api_cache, api_cache_time>>
      ]_vars

\* C38 witness: a release of a handle no open has handed out yet has
\* returned success while another handle is open
C38_Witness ==
    /\ ret.op = "release"
    /\ ret.err = OK
    /\ ret.fh > fd_counter
    /\ fd_counter >= 1
    /\ open_files # EmptyDict

----------------------------------------------------------------------------
(* Calls that arrive while a read is at its remote request.                *)

\* C33: while the read of one client is at its range request, the open or
\* the release another client has issued on its own file can take its
\* first statement: it does not wait for the read to return.
C33_ReadBlocksNoOtherCall ==
    \A t, u \in Threads :
        (t # u /\ threads[t].pc = "fetch")
           => /\ threads[u].pc = "open" => ENABLED TOpenResolve(u)
              /\ threads[u].pc = "release" => ENABLED TReleaseCheck(u)

\* C34: while a read is past its handle check and has not returned, a
\* release can run (line 280 lets none start before the read has returned),
\* and no read ends in an untyped fault.
C34_ReleaseDuringRead ==
    /\ (threads.pc # "idle" /\ threads.fh \in DOMAIN open_files)
          => ENABLED LRelease
    /\ ret.op = "read" => ret.err # Exception

====
